---- MODULE Spec2Model ----
(***************************************************************************)
(* Points / bonus / streak engine of lifeapp                               *)
(* (src/src/services/pointsService.ts over src/src/services/               *)
(* storageService.ts).                                                     *)
(*                                                                         *)
(* Dates "YYYY-MM-DD" are day numbers (days since an epoch day 0), an      *)
(* instant is a number of hours since 00:00 UTC of day 0.  The device's    *)
(* time zone is part of the environment: JavaScript's Date mixes UTC       *)
(* (new Date("YYYY-MM-DD"), toISOString) with local time (getDate,         *)
(* setDate, getDay), and the model keeps that distinction.                 *)
(* Points are kept in half points (the negative rate is 0.5 per minute):   *)
(* a stored integer field p is p points, a raw sum h is h/2 points.        *)
(***************************************************************************)
EXTENDS Integers, Sequences, FiniteSets, TLC

VARIABLES
    now,          \* the clock: hours since 00:00 UTC of day 0
    zone,         \* the device's time zone (fixed during a run)
    dailyPoints,  \* storage: date -> DailyPoints, for the dates that have a record
    weeklyBonus,  \* storage: weekStart -> WeeklyBonus, for the weeks that have a record
    streakData,   \* storage: << >> when there is no StreakData record, else <<record>>
    activities,   \* storage: the Activity list
    goals,        \* storage: userSettings.dailyGoals
    sessions,     \* storage: the TrackingSession list
    todos,        \* storage: the Todo list
    last,         \* the last engine call: what was called, with what, and how it ended
    calls,        \* Spec: the number of engine calls made so far
    history,      \* SpecStreak: the updateStreak calls since the fresh install, while
                  \* they are calls without failure on consecutive days with goal reached;
                  \* Spec: whether the run made orchestrator calls without failure only
    procs,        \* SpecSteps: the orchestrator calls in progress, each with its
                  \* position in the code and its local variables
    clock,        \* the clock of the timers: seconds since the app started
    storedSessions, \* storage: the ActiveSession list
    activeSessions, \* activityStore: the activeSessions of the store's state
    timerCalls    \* the activityStore calls and the elapsed-time refresh in
                  \* progress, each with its position and its local variables

timerVars == << clock, storedSessions, activeSessions, timerCalls >>

vars == << now, zone, dailyPoints, weeklyBonus, streakData,
           activities, goals, sessions, todos, last, calls, history, procs,
           timerVars >>

----------------------------------------------------------------------------
(* Bounds of the model *)

\* dates range over 0..MaxDay
MaxDay == 2
\* history records at most this many updateStreak calls
MaxCalls == 3
\* at most this many storage operations fail during one engine call
MaxFaults == 1

Dates == 0 .. MaxDay

----------------------------------------------------------------------------
(* Time: JavaScript Date, as far as the engine uses it *)

\* The weekday (0 = Sunday .. 6 = Saturday, as Date.getDay) of a local day.
\* Day 0 is a Saturday, so day 1 is a Sunday and day 2 a Monday.
Weekday(day) == (day + 6) % 7

\* A time zone: standard offset from UTC in hours, and the UTC interval
\* [dstFrom, dstTo) during which daylight saving time adds one hour.
\* ZoneWest and ZoneEast leave daylight saving time in the night of day 1
\* (a Sunday), as the time zones of North America and Europe do.
ZoneUTC  == [std |->  0, dstFrom |-> 0,    dstTo |-> 0]
ZoneWest == [std |-> -5, dstFrom |-> -240, dstTo |-> 30]
ZoneEast == [std |->  1, dstFrom |-> -240, dstTo |-> 25]
Zones == {ZoneUTC, ZoneWest, ZoneEast}

\* the local offset from UTC at instant t
Offset(t) ==
    zone.std + (IF zone.dstFrom <= t /\ t < zone.dstTo THEN 1 ELSE 0)

\* local wall-clock reading of instant t, in hours since local 00:00 of day 0
LocalWall(t) == t + Offset(t)

\* the instant of a local wall-clock reading w (ECMAScript UTC(t)): a reading
\* that occurs twice or never is read with the offset before the transition
UTCOfWall(w) ==
    LET a == w - (zone.std + 1)
    IN  IF zone.dstFrom <= a /\ a < zone.dstTo THEN a ELSE w - zone.std

\* new Date("YYYY-MM-DD"): 00:00 UTC of that date
ParseDate(date) == date * 24

\* d.toISOString().split('T')[0]: the UTC date of instant t
formatDate(t) == t \div 24

\* d.setDate(d.getDate() + n): n days later at the same local wall-clock time
AddLocalDays(t, n) == UTCOfWall(LocalWall(t) + n * 24)

\* d.getDay(): the local weekday of instant t
GetDay(t) == Weekday(LocalWall(t) \div 24)

\* new Date().toISOString().split('T')[0]
Today == formatDate(now)

----------------------------------------------------------------------------
(* Storage failures *)

\* The storage operations of the engine that can fail during a call.  A call
\* is made with the set f of the operations that fail in it.
FaultPoints ==
    { "readActivities", "readSessions", "readTodos", "readSettings",
      "readDaily", "writeDaily",
      "readDailyApply", "saveDailyApply", "saveWeeklyApply",
      "readWeekly", "createWeekly", "writeWeekly",
      "readStreak", "createStreak", "writeStreak" }

RECURSIVE UpTo(_, _)
UpTo(points, n) ==
    IF n = 0 THEN { {} }
    ELSE UpTo(points, n - 1)
         \cup { f \cup {p} : f \in UpTo(points, n - 1), p \in points }

\* the sets of at most MaxFaults of the given operations
FaultSets(points) == UpTo(points, MaxFaults)

\* no orchestrator call is in progress
NoProcs == << >>

\* no timer was started and no activityStore call is in progress
NoTimers ==
    /\ clock = 0
    /\ storedSessions = << >>
    /\ activeSessions = << >>
    /\ timerCalls = << >>

\* The three persisted records of the engine, as one value
Store == [daily |-> dailyPoints, weekly |-> weeklyBonus, streak |-> streakData]

----------------------------------------------------------------------------
(* Streak Tracker *)

\* helper of pointsService: yesterday of a "YYYY-MM-DD" date
getYesterday_sameDay(date) == formatDate(ParseDate(date))

getYesterday(date) == formatDate(AddLocalDays(ParseDate(date), -1))

\* the record getStreakData initialises and falls back to
InitialStreak ==
    [currentStreak |-> 0, longestStreak |-> 0, lastUpdateDate |-> Today]

\* storage.getStreakData: the stored record; without one, a new record that
\* is saved; on any error the same zero record, unsaved
getStreakData(S, f) ==
    IF "readStreak" \in f THEN [store |-> S, value |-> InitialStreak]
    ELSE IF S.streak # << >> THEN [store |-> S, value |-> S.streak[1]]
    ELSE IF "createStreak" \in f THEN [store |-> S, value |-> InitialStreak]
    ELSE [store |-> [S EXCEPT !.streak = << InitialStreak >>],
          value |-> InitialStreak]

\* dailyPoints.totalPoints >= 100
GoalPoints == 100
isGoalReached(totalPoints) == totalPoints >= GoalPoints

\* the body of updateStreak between the read and the save
streakTransition(sd, date, totalPoints) ==
    LET yesterday == getYesterday(date)
    IN  IF isGoalReached(totalPoints)
        THEN LET cur == IF sd.lastUpdateDate = yesterday THEN sd.currentStreak + 1
                        ELSE IF sd.lastUpdateDate = date THEN sd.currentStreak
                        ELSE 1
             IN  [currentStreak |-> cur,
                  longestStreak |-> IF cur > sd.longestStreak THEN cur
                                    ELSE sd.longestStreak,
                  lastUpdateDate |-> date]
        ELSE IF sd.lastUpdateDate = yesterday /\ sd.currentStreak > 0
             THEN [sd EXCEPT !.currentStreak = 0, !.lastUpdateDate = date]
             ELSE sd

\* pointsService.updateStreak; ret is << >> when the call throws, else
\* <<the returned currentStreak>>
updateStreak(S, date, totalPoints, f) ==
    LET g  == getStreakData(S, f)
        sd == streakTransition(g.value, date, totalPoints)
    IN  IF "writeStreak" \in f
        THEN [store |-> g.store, err |-> TRUE, ret |-> << >>]
        ELSE [store |-> [g.store EXCEPT !.streak = << sd >>],
              err |-> FALSE, ret |-> << sd.currentStreak >>]

----------------------------------------------------------------------------
(* Key-value storage of records *)

EmptyMap == [k \in {} |-> 0]

\* AsyncStorage.setItem(key, value) on one family of keys
Put(map, key, value) ==
    [k \in DOMAIN map \cup {key} |-> IF k = key THEN value ELSE map[k]]

----------------------------------------------------------------------------
(* Daily Points Calculator *)

RECURSIVE SumDuration(_)
\* sessions.reduce((sum, s) => sum + s.durationSeconds, 0)
SumDuration(ss) ==
    IF ss = << >> THEN 0 ELSE Head(ss).durationSeconds + SumDuration(Tail(ss))

RECURSIVE SumPoints(_)
\* totalEarnedPoints: the sum of the rows' points, in half points
SumPoints(rows) ==
    IF rows = << >> THEN 0 ELSE Head(rows).points + SumPoints(Tail(rows))

\* Math.round of h half points: the nearest integer, a tie going up
Round_away(h) == IF h >= 0 THEN (h + 1) \div 2 ELSE 0 - ((1 - h) \div 2)

Round(h) == (h + 1) \div 2

\* Math.floor(totalSeconds / 60)
FloorMinutes_ceil(totalSeconds) == (totalSeconds + 59) \div 60

FloorMinutes(totalSeconds) == totalSeconds \div 60

\* the breakdown row of one activity (none, or one); row points are in half
\* points
ActivityRow_always(activity, sess, gls) ==
    << [source |-> "activity", sourceId |-> activity.id, points |-> 0,
        goalMet |-> FALSE, timeSpent |-> << 0 >>, goalTime |-> << >>] >>

ActivityRow(activity, sess, gls) ==
    LET activitySessions ==
            SelectSeq(sess, LAMBDA x : x.activityId = activity.id)
        totalSeconds == SumDuration(activitySessions)
        enabledGoals ==
            SelectSeq(gls, LAMBDA g : g.activityId = activity.id /\ g.enabled)
    IN  IF totalSeconds = 0 THEN << >>
        ELSE IF enabledGoals # << >> /\ ~activity.isNegative
        THEN LET goalSeconds == Head(enabledGoals).minimumMinutes * 60
                 goalMet == totalSeconds >= goalSeconds
                 points == IF goalMet
                           THEN (IF activity.goalPoints # 0
                                 THEN activity.goalPoints ELSE 10)
                           ELSE 0
             IN  << [source |-> "activity", sourceId |-> activity.id,
                     points |-> 2 * points, goalMet |-> goalMet,
                     timeSpent |-> << totalSeconds >>,
                     goalTime |-> << goalSeconds >>] >>
        ELSE IF activity.isNegative
        THEN LET minutes == FloorMinutes(totalSeconds)
                 pointsPerMinute == IF activity.negativePointsPerMinute # 0
                                    THEN activity.negativePointsPerMinute ELSE 1
             IN  << [source |-> "activity", sourceId |-> activity.id,
                     points |-> 0 - (minutes * pointsPerMinute),
                     goalMet |-> FALSE,
                     timeSpent |-> << totalSeconds >>, goalTime |-> << >>] >>
        ELSE << >>

RECURSIVE ActivityRows(_, _, _)
\* the loop over the activities
ActivityRows(acts, sess, gls) ==
    IF acts = << >> THEN << >>
    ELSE ActivityRow(Head(acts), sess, gls) \o ActivityRows(Tail(acts), sess, gls)

\* the filter of the todos completed on the date, and the test of the points
Qualifies_anyDate(todo, date) == todo.completed /\ todo.points > 0

Qualifies(todo, date) ==
    /\ todo.completed
    /\ todo.completedAt # << >>
    /\ formatDate(todo.completedAt[1]) = date
    /\ todo.points > 0

RECURSIVE TodoRows(_, _)
\* the loop over the todos completed on the date
TodoRows(tds, date) ==
    IF tds = << >> THEN << >>
    ELSE LET todo == Head(tds)
             counts == Qualifies(todo, date)
         IN  (IF counts
              THEN << [source |-> "todo", sourceId |-> todo.id,
                       points |-> 2 * todo.points, goalMet |-> TRUE,
                       timeSpent |-> << >>, goalTime |-> << >>] >>
              ELSE << >>) \o TodoRows(Tail(tds), date)

\* storage.getDailyPoints: << >> for null (no record, or any error)
getDailyPoints(S, date, failed) ==
    IF failed THEN << >>
    ELSE IF date \in DOMAIN S.daily THEN << S.daily[date] >>
    ELSE << >>

\* existingDailyPoints?.bonusApplied || 0
CarriedBonus_none(existing) == 0

CarriedBonus(existing) ==
    IF existing = << >> THEN 0 ELSE existing[1].bonusApplied

\* Math.round(totalEarnedPoints + bonusApplied), the first in half points
RoundedTotal_earned(totalEarnedPoints, bonusApplied) == Round(totalEarnedPoints)

RoundedTotal(totalEarnedPoints, bonusApplied) ==
    Round(totalEarnedPoints + 2 * bonusApplied)

\* pointsService.calculateDailyPoints; value is << >> when the call throws,
\* else <<the DailyPoints it saved and returns>>
calculateDailyPoints(S, date, f) ==
    LET acts == IF "readActivities" \in f THEN << >> ELSE activities
        sess == IF "readSessions" \in f THEN << >>
                ELSE SelectSeq(sessions, LAMBDA x : x.date = date)
        tds  == IF "readTodos" \in f THEN << >> ELSE todos
        gls  == IF "readSettings" \in f THEN << >> ELSE goals
        breakdown == ActivityRows(acts, sess, gls) \o TodoRows(tds, date)
        totalEarnedPoints == SumPoints(breakdown)
        bonusApplied == CarriedBonus(getDailyPoints(S, date, "readDaily" \in f))
        total == RoundedTotal(totalEarnedPoints, bonusApplied)
        dp == [date |-> date,
               earnedPoints |-> Round(totalEarnedPoints),
               bonusApplied |-> bonusApplied,
               totalPoints |-> total,
               reachedGoal |-> total >= 100,
               breakdown |-> breakdown]
    IN  IF "writeDaily" \in f
        THEN [store |-> S, err |-> TRUE, value |-> << >>]
        ELSE [store |-> [S EXCEPT !.daily = Put(S.daily, date, dp)],
              err |-> FALSE, value |-> << dp >>]

----------------------------------------------------------------------------
(* Weekly Bonus Ledger *)

\* the Monday of the current week as getCurrentWeeklyBonus computes it
WeekStart ==
    LET dayOfWeek == GetDay(now)
        diff == IF dayOfWeek = 0 THEN -6 ELSE 1 - dayOfWeek
    IN  formatDate(AddLocalDays(now, diff))

NewWeeklyBonus ==
    [weekStart |-> WeekStart, availableBonus |-> 0, usedBonus |-> 0,
     dailyBreakdown |-> << >>]

\* storage.getCurrentWeeklyBonus: the stored record of the current week;
\* without one, a new record that is saved; on any error the same zero
\* record, unsaved
getCurrentWeeklyBonus(S, f) ==
    IF "readWeekly" \in f THEN [store |-> S, value |-> NewWeeklyBonus]
    ELSE IF WeekStart \in DOMAIN S.weekly
    THEN [store |-> S, value |-> S.weekly[WeekStart]]
    ELSE IF "createWeekly" \in f THEN [store |-> S, value |-> NewWeeklyBonus]
    ELSE [store |-> [S EXCEPT !.weekly = Put(S.weekly, WeekStart, NewWeeklyBonus)],
          value |-> NewWeeklyBonus]

\* storage.saveWeeklyBonus
saveWeeklyBonus(S, wb) == [S EXCEPT !.weekly = Put(S.weekly, wb.weekStart, wb)]

\* the index of the first dailyBreakdown entry for date, 0 when there is none
FindDay(dailyBreakdown, date) ==
    LET hits == { i \in 1 .. Len(dailyBreakdown) : dailyBreakdown[i].date = date }
    IN  IF hits = {} THEN 0
        ELSE CHOOSE i \in hits : \A j \in hits : i <= j

\* dailyBreakdown with earned and used added to the entry for date, the
\* entry being pushed when there is none
Upsert_push(dailyBreakdown, date, earned, used) ==
    Append(dailyBreakdown, [date |-> date, earned |-> earned, used |-> used])

Upsert(dailyBreakdown, date, earned, used) ==
    LET i == FindDay(dailyBreakdown, date)
    IN  IF i = 0
        THEN Append(dailyBreakdown,
                    [date |-> date, earned |-> earned, used |-> used])
        ELSE [dailyBreakdown EXCEPT ![i].earned = @ + earned,
                                    ![i].used = @ + used]

WEEKLY_CAP == 200

\* Math.min(weeklyBonus.availableBonus + bonusEarned, WEEKLY_CAP)
Capped_none(availableBonus, bonusEarned) == availableBonus + bonusEarned

Capped(availableBonus, bonusEarned) ==
    IF availableBonus + bonusEarned < WEEKLY_CAP
    THEN availableBonus + bonusEarned ELSE WEEKLY_CAP

\* pointsService.calculateBonusEarned
calculateBonusEarned(dp) ==
    IF dp.totalPoints <= 100 THEN 0 ELSE dp.totalPoints - 100

\* pointsService.addBonusToWeek
addBonusToWeek(S, date, bonusEarned, f) ==
    IF bonusEarned <= 0 THEN [store |-> S, err |-> FALSE]
    ELSE LET g  == getCurrentWeeklyBonus(S, f)
             wb == [g.value EXCEPT
                      !.availableBonus = Capped(@, bonusEarned),
                      !.dailyBreakdown = Upsert(@, date, bonusEarned, 0)]
         IN  IF "writeWeekly" \in f
             THEN [store |-> g.store, err |-> TRUE]
             ELSE [store |-> saveWeeklyBonus(g.store, wb), err |-> FALSE]

----------------------------------------------------------------------------
(* Day Orchestrator *)

\* the records left when a save of an orchestrator call rejects: before is
\* what they were when the stage began, partial has the writes that completed
\* (no catch, no transaction: the rejection just propagates)
AfterFailedSave_rollback(before, partial) == before

AfterFailedSave(before, partial) == partial

\* the guard of applyBonusToDay on the pool
NotEnoughBonus_off(wb, bonusAmount) == wb.availableBonus + 100 < bonusAmount

NotEnoughBonus(wb, bonusAmount) == wb.availableBonus < bonusAmount

\* the DailyPoints record with the bonus applied
WithBonus_stale(dp, bonusAmount) ==
    [dp EXCEPT !.bonusApplied = @ + bonusAmount]

WithBonus(dp, bonusAmount) ==
    LET bonusApplied == dp.bonusApplied + bonusAmount
        totalPoints  == dp.earnedPoints + bonusApplied
    IN  [dp EXCEPT !.bonusApplied = bonusApplied,
                   !.totalPoints = totalPoints,
                   !.reachedGoal = totalPoints >= 100]

\* pointsService.applyBonusToDay
applyBonusToDay(S, date, bonusAmount, f) ==
    IF bonusAmount <= 0 THEN [store |-> S, err |-> TRUE]
    ELSE
    LET g == getCurrentWeeklyBonus(S, f)
    IN  IF NotEnoughBonus(g.value, bonusAmount)
        THEN [store |-> g.store, err |-> TRUE]
        ELSE
        LET existing == getDailyPoints(g.store, date, "readDailyApply" \in f)
            c == IF existing = << >>
                 THEN calculateDailyPoints(g.store, date, f)
                 ELSE [store |-> g.store, err |-> FALSE, value |-> existing]
        IN  IF c.err THEN [store |-> c.store, err |-> TRUE]
            ELSE
            LET dp == WithBonus(c.value[1], bonusAmount)
                wb == [g.value EXCEPT
                         !.availableBonus = @ - bonusAmount,
                         !.usedBonus = @ + bonusAmount,
                         !.dailyBreakdown = Upsert(@, date, 0, bonusAmount)]
                S1 == IF "saveDailyApply" \in f THEN c.store
                      ELSE [c.store EXCEPT !.daily = Put(@, date, dp)]
                S2 == IF "saveWeeklyApply" \in f THEN S1
                      ELSE saveWeeklyBonus(S1, wb)
            IN  IF "saveDailyApply" \in f \/ "saveWeeklyApply" \in f
                THEN [store |-> AfterFailedSave(c.store, S2), err |-> TRUE]
                ELSE LET u == updateStreak(S2, date, dp.totalPoints, f)
                     IN  [store |-> u.store, err |-> u.err]

\* pointsService.recalculateDayPoints
recalculateDayPoints(S, date, f) ==
    LET c == calculateDailyPoints(S, date, f)
    IN  IF c.err THEN [store |-> c.store, err |-> TRUE]
        ELSE
        LET dp == c.value[1]
            bonusEarned == calculateBonusEarned(dp)
            a == IF bonusEarned > 0
                 THEN addBonusToWeek(c.store, date, bonusEarned, f)
                 ELSE [store |-> c.store, err |-> FALSE]
        IN  IF a.err THEN [store |-> AfterFailedSave(S, a.store), err |-> TRUE]
            ELSE LET u == updateStreak(a.store, date, dp.totalPoints, f)
                 IN  [store |-> IF u.err THEN AfterFailedSave(S, u.store)
                                ELSE u.store,
                      err |-> u.err]

----------------------------------------------------------------------------
(* The clock *)

\* a day passes.  The model looks at the clock at 03:00 UTC, when the local
\* date of ZoneWest is still the day before
Tick ==
    /\ formatDate(now) < MaxDay
    /\ now' = now + 24
    /\ last' = [op |-> "tick", date |-> 0, arg |-> 0, clean |-> TRUE,
                err |-> FALSE, ret |-> << >>, repeat |-> FALSE]
    /\ UNCHANGED << timerVars, procs, zone, dailyPoints, weeklyBonus, streakData,
                    activities, goals, sessions, todos, history, calls >>

SetStore(S) ==
    /\ dailyPoints' = S.daily
    /\ weeklyBonus' = S.weekly
    /\ streakData' = S.streak

----------------------------------------------------------------------------
(* SpecStreak: the Streak Tracker called on its own *)

\* the totalPoints of the DailyPoints handed to updateStreak
TotalPointsValues == {99, 100}

\* history before any updateStreak call; ok is FALSE once a call was not the
\* next one of a run of calls without failure, each with totalPoints = 100,
\* on consecutive days
NoHistory == [ok |-> TRUE, rets |-> << >>, date |-> 0]
Spoiled == [ok |-> FALSE, rets |-> << >>, date |-> 0]

Record(h, date, total, f, r) ==
    IF /\ h.ok
       /\ Len(h.rets) < MaxCalls
       /\ f = {} /\ total = GoalPoints
       /\ (h.rets # << >> => date = h.date + 1)
    THEN [ok |-> TRUE, rets |-> h.rets \o r.ret, date |-> date]
    ELSE Spoiled

\* last before any call.  clean says that no storage operation failed in the
\* call, err that the call threw, ret is what updateStreak returned; repeat
\* says that the call before this one was a call of the same function for the
\* same date, that no storage operation failed in either, and that the goal
\* was reached in both or in neither
NoCall == [op |-> "none", date |-> 0, arg |-> 0, clean |-> TRUE,
           err |-> FALSE, ret |-> << >>, repeat |-> FALSE]

InitStreak ==
    /\ now = 3
    /\ zone \in Zones
    /\ dailyPoints = EmptyMap
    /\ weeklyBonus = EmptyMap
    /\ streakData = << >>
    /\ activities = << >>
    /\ goals = << >>
    /\ sessions = << >>
    /\ todos = << >>
    /\ last = NoCall
    /\ history = NoHistory
    /\ calls = 0
    /\ procs = NoProcs
    /\ NoTimers

\* a screen reads the streak (useStats.loadData): getStreakData
LoadStreak ==
    /\ \E f \in FaultSets({"readStreak", "createStreak"}) :
          /\ SetStore(getStreakData(Store, f).store)
          /\ last' = [op |-> "getStreakData", date |-> Today, arg |-> 0,
                      clean |-> f = {}, err |-> FALSE, ret |-> << >>,
                      repeat |-> FALSE]
    /\ UNCHANGED << timerVars, procs, now, zone, activities, goals, sessions, todos, history, calls >>

\* updateStreak(date, dailyPoints) with dailyPoints.totalPoints = total
UpdateStreak ==
    /\ \E date \in Dates, total \in TotalPointsValues,
          f \in FaultSets({"readStreak", "createStreak", "writeStreak"}) :
          \E r \in { updateStreak(Store, date, total, f) } :
             /\ SetStore(r.store)
             /\ last' = [op |-> "updateStreak", date |-> date, arg |-> total,
                         clean |-> f = {}, err |-> r.err, ret |-> r.ret,
                         repeat |-> /\ last.op = "updateStreak"
                                    /\ last.date = date
                                    /\ last.clean /\ f = {}
                                    /\ isGoalReached(last.arg) = isGoalReached(total)]
             /\ history' = Record(history, date, total, f, r)
    /\ UNCHANGED << timerVars, procs, now, zone, activities, goals, sessions, todos, calls >>

NextStreak == Tick \/ LoadStreak \/ UpdateStreak

SpecStreak == InitStreak /\ [][NextStreak]_vars

----------------------------------------------------------------------------
(* Spec: the engine, with the day's sessions changing under it *)

\* at most this many tracking sessions are saved in a run
MaxSessions == 2
\* at most this many calls of the engine are made in a run
MaxOps == 2

\* the activities of the user: one with a goal worth 100 points, one negative
\* at the default rate of 0.5 points per minute
UserActivities ==
    << [id |-> "read", isNegative |-> FALSE, goalPoints |-> 100,
        negativePointsPerMinute |-> 0],
       [id |-> "social", isNegative |-> TRUE, goalPoints |-> 0,
        negativePointsPerMinute |-> 0] >>

UserGoals == << [activityId |-> "read", minimumMinutes |-> 1, enabled |-> TRUE] >>

\* the elapsed seconds of a timer when it is stopped
ElapsedValues == {120}

\* the amounts the user asks applyBonusToDay for
BonusAmounts == {-50, 0, 50, 999}

\* the bonusEarned values addBonusToWeek is called with directly
EarnedValues == {-10, 0, 50}

\* The records at the start of a run: those of a fresh install, or those of
\* an install on which 190 bonus points were banked for today and the streak
\* was read
FreshStore == [daily |-> EmptyMap, weekly |-> EmptyMap, streak |-> << >>]
UsedStore ==
    getStreakData(addBonusToWeek(FreshStore, Today, 190, {}).store, {}).store

Init ==
    /\ now = 3
    /\ zone \in Zones
    /\ \E S \in {FreshStore, UsedStore} :
          /\ dailyPoints = S.daily
          /\ weeklyBonus = S.weekly
          /\ streakData = S.streak
    /\ activities = UserActivities
    /\ goals = UserGoals
    /\ sessions = << >>
    /\ todos = << >>
    /\ last = NoCall
    /\ history = NoHistory
    /\ calls = 0
    /\ procs = NoProcs
    /\ NoTimers

\* last after a call of the engine in Spec: which function, whether no storage
\* operation failed in it, and whether it threw
Call(op, f, err) ==
    [op |-> op, date |-> 0, arg |-> 0, clean |-> f = {}, err |-> err,
     ret |-> << >>, repeat |-> FALSE]

\* activityStore.stopTimer saves the session of a stopped timer:
\* storage.addTrackingSession
AddTrackingSession ==
    /\ Len(sessions) < MaxSessions
    /\ \E a \in 1 .. Len(activities), elapsedSeconds \in ElapsedValues :
          sessions' = Append(sessions,
              [activityId |-> activities[a].id,
               durationSeconds |-> IF elapsedSeconds > 60 THEN elapsedSeconds ELSE 60,
               date |-> formatDate(now)])
    /\ last' = Call("addTrackingSession", {}, FALSE)
    /\ UNCHANGED << timerVars, procs, now, zone, dailyPoints, weeklyBonus, streakData,
                    activities, goals, todos, history, calls >>

\* the storage operations that fail in the calls of Spec
CalcFaults == { "readDaily", "writeDaily" }
WeekFaults == { "readWeekly", "createWeekly" }
StreakFaults == { "readStreak", "createStreak", "writeStreak" }

\* history in Spec: ok is TRUE as long as every call of the run was a
\* recalculateDayPoints or an applyBonusToDay in which no storage operation
\* failed
Orchestrated(f) == IF history.ok /\ f = {} THEN history ELSE Spoiled

\* useStats.loadData, as far as it touches the engine's records
LoadStats ==
    /\ calls < MaxOps
    /\ \E f \in FaultSets(WeekFaults \cup {"readStreak", "createStreak"}) :
          \E r \in { getStreakData(getCurrentWeeklyBonus(Store, f).store, f) } :
             /\ SetStore(r.store)
             /\ last' = Call("loadData", f, FALSE)
             /\ history' = Spoiled
    /\ calls' = calls + 1
    /\ UNCHANGED << timerVars, procs, now, zone, activities, goals, sessions, todos >>

CalculateDailyPoints ==
    /\ calls < MaxOps
    /\ \E date \in Dates, f \in FaultSets(CalcFaults) :
          \E r \in { calculateDailyPoints(Store, date, f) } :
             /\ SetStore(r.store)
             /\ last' = Call("calculateDailyPoints", f, r.err)
             /\ history' = Spoiled
    /\ calls' = calls + 1
    /\ UNCHANGED << timerVars, procs, now, zone, activities, goals, sessions, todos >>

RecalculateDayPoints ==
    /\ calls < MaxOps
    /\ \E date \in Dates,
          f \in FaultSets(CalcFaults \cup WeekFaults \cup {"writeWeekly"}
                          \cup StreakFaults) :
          \E r \in { recalculateDayPoints(Store, date, f) } :
             /\ SetStore(r.store)
             /\ last' = Call("recalculateDayPoints", f, r.err)
             /\ history' = Orchestrated(f)
    /\ calls' = calls + 1
    /\ UNCHANGED << timerVars, procs, now, zone, activities, goals, sessions, todos >>

AddBonusToWeek ==
    /\ calls < MaxOps
    /\ \E date \in Dates, bonusEarned \in EarnedValues,
          f \in FaultSets(WeekFaults \cup {"writeWeekly"}) :
          \E r \in { addBonusToWeek(Store, date, bonusEarned, f) } :
             /\ SetStore(r.store)
             /\ last' = Call("addBonusToWeek", f, r.err)
             /\ history' = Spoiled
    /\ calls' = calls + 1
    /\ UNCHANGED << timerVars, procs, now, zone, activities, goals, sessions, todos >>

ApplyBonusToDay ==
    /\ calls < MaxOps
    /\ \E date \in Dates, bonusAmount \in BonusAmounts,
          f \in FaultSets(CalcFaults \cup WeekFaults \cup StreakFaults \cup
                          {"readDailyApply", "saveDailyApply", "saveWeeklyApply"}) :
          \E r \in { applyBonusToDay(Store, date, bonusAmount, f) } :
             /\ SetStore(r.store)
             /\ last' = Call("applyBonusToDay", f, r.err)
             /\ history' = Orchestrated(f)
    /\ calls' = calls + 1
    /\ UNCHANGED << timerVars, procs, now, zone, activities, goals, sessions, todos >>

Next ==
    \/ Tick
    \/ AddTrackingSession
    \/ LoadStats
    \/ CalculateDailyPoints
    \/ RecalculateDayPoints
    \/ AddBonusToWeek
    \/ ApplyBonusToDay

Spec == Init /\ [][Next]_vars

----------------------------------------------------------------------------
(* Claims on the Streak Tracker (SpecStreak) *)

\* C1: from a fresh install, updateStreak on three consecutive days, each
\* with totalPoints = 100, returns 1, then 2, then 3, and leaves
\* longestStreak = 3, whichever day the first of them is
C1_ThreeDayStreak ==
    (history.ok /\ Len(history.rets) = 3)
        => /\ history.rets = << 1, 2, 3 >>
           /\ streakData # << >>
           /\ streakData[1].longestStreak = 3

\* C2: updateStreak(date, dailyPoints) without storage failure follows the
\* five-row transition table on the (currentStreak, lastUpdateDate) of the
\* record getStreakData hands it, goal reached meaning totalPoints >= 100
C2_TransitionTable ==
    [][ (last'.op = "updateStreak" /\ last'.clean /\ ~last'.err)
        => LET date    == last'.date
               reached == last'.arg >= 100
               sd      == IF streakData = << >> THEN InitialStreak
                          ELSE streakData[1]
               new     == streakData'[1]
           IN  IF reached /\ sd.lastUpdateDate = date - 1
               THEN /\ new.currentStreak = sd.currentStreak + 1
                    /\ new.lastUpdateDate = date
               ELSE IF reached /\ sd.lastUpdateDate = date
               THEN /\ new.currentStreak = sd.currentStreak
                    /\ new.lastUpdateDate = sd.lastUpdateDate
               ELSE IF reached
               THEN /\ new.currentStreak = 1
                    /\ new.lastUpdateDate = date
               ELSE IF sd.lastUpdateDate = date - 1 /\ sd.currentStreak > 0
               THEN /\ new.currentStreak = 0
                    /\ new.lastUpdateDate = date
               ELSE /\ new.currentStreak = sd.currentStreak
                    /\ new.lastUpdateDate = sd.lastUpdateDate ]_vars

\* C8: a second updateStreak call for the same date, right after the first
\* and with the goal reached both times, changes nothing and returns the
\* same currentStreak as the first
C8_SameDayIdempotent ==
    [][ (last'.op = "updateStreak" /\ last'.repeat /\ isGoalReached(last'.arg))
        => /\ streakData' = streakData
           /\ last'.ret = last.ret ]_vars

C8_Witness ==
    /\ last.op = "updateStreak" /\ last.repeat /\ isGoalReached(last.arg)
    /\ last.ret = << 2 >>

----------------------------------------------------------------------------
(* Claims on the engine (Spec).  A claim about what one call does is stated *)
(* on the function applied to the reachable state, no storage operation     *)
(* failing: the actions of Spec take exactly these results.                 *)

\* the availableBonus of the current week's ledger, 0 when the week has no
\* record yet
AvailableBonus ==
    IF WeekStart \in DOMAIN weeklyBonus
    THEN weeklyBonus[WeekStart].availableBonus ELSE 0

\* C3 as stated: applyBonusToDay(date, amount) with amount <= 0 or amount >
\* availableBonus of the current week throws and leaves the DailyPoints, the
\* WeeklyBonus records and the StreakData as they were
C3_RejectedUnchanged ==
    \A date \in Dates, amount \in BonusAmounts :
        (amount <= 0 \/ amount > AvailableBonus)
            => LET r == applyBonusToDay(Store, date, amount, {})
               IN  r.err /\ r.store = Store

\* C3, amended: applyBonusToDay(date, amount) with amount <= 0 or amount >
\* availableBonus of the current week throws and leaves the DailyPoints, the
\* StreakData and the existing WeeklyBonus records as they were; when
\* amount > 0 and the current week has no WeeklyBonus record, the record of
\* the week is created with availableBonus 0, usedBonus 0 and no entries
C3_RejectedAmended ==
    \A date \in Dates, amount \in BonusAmounts :
        (amount <= 0 \/ amount > AvailableBonus)
            => LET r == applyBonusToDay(Store, date, amount, {})
               IN  /\ r.err
                   /\ r.store.daily = dailyPoints
                   /\ r.store.streak = streakData
                   /\ IF amount > 0 /\ WeekStart \notin DOMAIN weeklyBonus
                      THEN r.store.weekly =
                               Put(weeklyBonus, WeekStart,
                                   [weekStart |-> WeekStart, availableBonus |-> 0,
                                    usedBonus |-> 0, dailyBreakdown |-> << >>])
                      ELSE r.store.weekly = weeklyBonus

\* a rejected applyBonusToDay was the first call on a fresh install, and left
\* the zero record of the week behind
C3_Witness ==
    /\ last.op = "applyBonusToDay" /\ last.clean /\ last.err
    /\ calls = 1
    /\ dailyPoints = EmptyMap /\ streakData = << >>
    /\ DOMAIN weeklyBonus = {WeekStart}
    /\ weeklyBonus[WeekStart].availableBonus = 0
    /\ weeklyBonus[WeekStart].dailyBreakdown = << >>

\* C4: every WeeklyBonus record has 0 <= availableBonus <= 200 in every
\* reachable state; addBonusToWeek(date, e) with e > 0 sets the current
\* week's availableBonus to min(availableBonus + e, 200), and changes nothing
\* when e <= 0
C4_WeeklyCap ==
    /\ \A k \in DOMAIN weeklyBonus :
          /\ 0 <= weeklyBonus[k].availableBonus
          /\ weeklyBonus[k].availableBonus <= 200
    /\ \A date \in Dates, e \in EarnedValues :
          LET r == addBonusToWeek(Store, date, e, {})
          IN  /\ ~r.err
              /\ IF e > 0
                 THEN /\ WeekStart \in DOMAIN r.store.weekly
                      /\ r.store.weekly[WeekStart].availableBonus =
                            (IF AvailableBonus + e < 200 THEN AvailableBonus + e ELSE 200)
                 ELSE r.store = Store

\* addBonusToWeek has just run into the cap: 240 points were earned for one
\* day and nothing was used, and the pool stands at 200
C4_Witness ==
    /\ last.op = "addBonusToWeek" /\ last.clean /\ ~last.err
    /\ WeekStart \in DOMAIN weeklyBonus
    /\ weeklyBonus[WeekStart].availableBonus = 200
    /\ weeklyBonus[WeekStart].usedBonus = 0
    /\ \E i \in DOMAIN weeklyBonus[WeekStart].dailyBreakdown :
          weeklyBonus[WeekStart].dailyBreakdown[i].earned = 240

\* C5: when a DailyPoints record for date exists with bonusApplied = b,
\* calculateDailyPoints(date), and so recalculateDayPoints(date), stores a
\* record with bonusApplied = b and totalPoints = the earnedPoints it has
\* now computed + b
C5_CarryForward ==
    \A date \in DOMAIN dailyPoints :
        LET b == dailyPoints[date].bonusApplied
            c == calculateDailyPoints(Store, date, {})
            r == recalculateDayPoints(Store, date, {})
        IN  /\ ~c.err
            /\ c.store.daily[date].bonusApplied = b
            /\ c.store.daily[date].totalPoints = c.store.daily[date].earnedPoints + b
            /\ c.store.daily[date].earnedPoints =
                  Round(SumPoints(c.store.daily[date].breakdown))
            /\ ~r.err
            /\ r.store.daily[date] = c.store.daily[date]

\* a day with 50 points of bonus applied at 100 earned points has been
\* calculated again after a session of a negative activity: 99 earned points,
\* the bonus still 50
C5_Witness ==
    /\ last.op \in {"calculateDailyPoints", "recalculateDayPoints"}
    /\ last.clean /\ ~last.err
    /\ \E date \in DOMAIN dailyPoints :
          /\ dailyPoints[date].bonusApplied = 50
          /\ dailyPoints[date].earnedPoints = 99
          /\ dailyPoints[date].totalPoints = 149

\* C6: the stored bonusApplied of a date never decreases, whatever call is
\* made and whatever storage operation fails in it
C6_BonusNeverDecreases ==
    [][ \A date \in DOMAIN dailyPoints :
           /\ date \in DOMAIN dailyPoints'
           /\ dailyPoints'[date].bonusApplied >= dailyPoints[date].bonusApplied ]_vars

\* C7: applyBonusToDay(date, amount) that does not throw takes amount from
\* the current week's availableBonus, adds it to usedBonus and to the used
\* field of the dailyBreakdown entry for date (pushed with earned = 0 when
\* there was none), adds it to the date's bonusApplied with totalPoints and
\* reachedGoal following, and leaves the StreakData that updateStreak gives
\* for the date and the updated DailyPoints
C7_SuccessfulApply ==
    \A date \in Dates, amount \in BonusAmounts :
        LET r == applyBonusToDay(Store, date, amount, {})
        IN  ~r.err =>
            /\ WeekStart \in DOMAIN weeklyBonus
            /\ LET w0 == weeklyBonus[WeekStart]
                   w1 == r.store.weekly[WeekStart]
                   i0 == FindDay(w0.dailyBreakdown, date)
                   i1 == FindDay(w1.dailyBreakdown, date)
                   d0 == IF date \in DOMAIN dailyPoints THEN dailyPoints[date]
                         ELSE calculateDailyPoints(Store, date, {}).value[1]
                   d1 == r.store.daily[date]
               IN  /\ w1.availableBonus = w0.availableBonus - amount
                   /\ w1.usedBonus = w0.usedBonus + amount
                   /\ i1 # 0
                   /\ IF i0 = 0
                      THEN /\ w1.dailyBreakdown[i1].earned = 0
                           /\ w1.dailyBreakdown[i1].used = amount
                           /\ Len(w1.dailyBreakdown) = Len(w0.dailyBreakdown) + 1
                      ELSE /\ w1.dailyBreakdown[i1].earned = w0.dailyBreakdown[i0].earned
                           /\ w1.dailyBreakdown[i1].used =
                                 w0.dailyBreakdown[i0].used + amount
                           /\ Len(w1.dailyBreakdown) = Len(w0.dailyBreakdown)
                   /\ \A k \in DOMAIN weeklyBonus \ {WeekStart} :
                         r.store.weekly[k] = weeklyBonus[k]
                   /\ d1.bonusApplied = d0.bonusApplied + amount
                   /\ d1.earnedPoints = d0.earnedPoints
                   /\ d1.totalPoints = d1.earnedPoints + d1.bonusApplied
                   /\ d1.reachedGoal = (d1.totalPoints >= 100)
                   /\ r.store.streak =
                         updateStreak([r.store EXCEPT !.streak = streakData],
                                      date, d1.totalPoints, {}).store.streak

\* applyBonusToDay has taken 50 of the 190 points of the pool for a day of
\* 100 earned points
C7_Witness ==
    /\ last.op = "applyBonusToDay" /\ last.clean /\ ~last.err
    /\ WeekStart \in DOMAIN weeklyBonus
    /\ weeklyBonus[WeekStart].availableBonus = 140
    /\ weeklyBonus[WeekStart].usedBonus = 50
    /\ \E date \in DOMAIN dailyPoints :
          /\ dailyPoints[date].earnedPoints = 100
          /\ dailyPoints[date].bonusApplied = 50
          /\ dailyPoints[date].totalPoints = 150

\* C9: after recalculateDayPoints and applyBonusToDay calls in which no
\* storage operation failed, with currentStreak = n > 0, each of the n days
\* ending at lastUpdateDate has a stored DailyPoints record with
\* totalPoints >= 100
C9_StreakMeaning ==
    (history.ok /\ streakData # << >>) =>
        \A i \in 0 .. streakData[1].currentStreak - 1 :
            LET day == streakData[1].lastUpdateDate - i
            IN  /\ day \in DOMAIN dailyPoints
                /\ dailyPoints[day].totalPoints >= 100

\* C10: the availableBonus of a WeeklyBonus record rises only in a call that
\* runs addBonusToWeek, and falls only in an applyBonusToDay call that does
\* not throw
C10_PoolMoves ==
    [][ \A k \in DOMAIN weeklyBonus :
           /\ k \in DOMAIN weeklyBonus'
           /\ weeklyBonus'[k].availableBonus > weeklyBonus[k].availableBonus
                 => last'.op \in {"addBonusToWeek", "recalculateDayPoints"}
           /\ weeklyBonus'[k].availableBonus < weeklyBonus[k].availableBonus
                 => (last'.op = "applyBonusToDay" /\ ~last'.err) ]_vars

\* WeeklyBonus.weekStart: the Monday of the week that holds a day
MondayOf(day) == day - ((Weekday(day) + 6) % 7)

\* C11: an applyBonusToDay call that does not throw draws from the
\* WeeklyBonus record of the week that holds the current clock date (its UTC
\* date or its local date), the record keyed by that week's Monday: this is
\* the only WeeklyBonus record the call changes, whatever week date lies in
C11_CurrentWeek ==
    [][ (last'.op = "applyBonusToDay" /\ last'.clean /\ ~last'.err)
        => \E k \in { MondayOf(Today), MondayOf(LocalWall(now) \div 24) } :
              /\ k \in DOMAIN weeklyBonus
              /\ DOMAIN weeklyBonus' = DOMAIN weeklyBonus
              /\ \A j \in DOMAIN weeklyBonus \ {k} :
                    weeklyBonus'[j] = weeklyBonus[j]
              /\ weeklyBonus'[k].usedBonus > weeklyBonus[k].usedBonus
              /\ weeklyBonus'[k].availableBonus < weeklyBonus[k].availableBonus ]_vars


----------------------------------------------------------------------------
(* SpecCalc: the Daily Points Calculator on the days a user can build *)

\* at most this many tracking sessions are saved in a run of SpecCalc
MaxCalcSessions == 2

\* at most this many bonus applications are made in a run of SpecCalc
MaxCalcApplies == 1

\* goalPoints of the goal activity; 0 stands for a goalPoints of 0 and for a
\* record without the field, which the calculator does not tell apart
GoalPointsValues == {0, 7}

\* negativePointsPerMinute of the negative activity in half points: not set
\* (0), 0.5 and 1.5
RateValues == {0, 1, 3}

\* minimumMinutes of the goal
MinimumMinutesValues == {1, 2}

\* the seconds between the start and the stop of a timer
CalcElapsedValues == {30, 60, 125}

\* Activity.negativePointsPerMinute where it is set, else the default of 0.5
DefaultRate == 1
RateOf(activity) ==
    IF activity.negativePointsPerMinute = 0 THEN DefaultRate
    ELSE activity.negativePointsPerMinute

\* the records of an install on which, of 190 bonus points banked for today,
\* 50 were applied to today
BonusedStore == applyBonusToDay(UsedStore, Today, 50, {}).store

\* a session left behind by an activity that was deleted, and a todo worth 5
\* points completed today
OrphanSession == [activityId |-> "gone", durationSeconds |-> 60, date |-> 0]
DoneTodo == [id |-> "t1", completed |-> TRUE, completedAt |-> << 3 >>, points |-> 5]

InitCalc ==
    /\ now = 3
    /\ zone = ZoneUTC
    /\ \E gp \in GoalPointsValues, rate \in RateValues :
          activities =
              << [id |-> "read", isNegative |-> FALSE, goalPoints |-> gp,
                  negativePointsPerMinute |-> 0],
                 [id |-> "social", isNegative |-> TRUE, goalPoints |-> 0,
                  negativePointsPerMinute |-> rate] >>
    /\ \E m \in MinimumMinutesValues, enabled \in BOOLEAN :
          goals = << [activityId |-> "read", minimumMinutes |-> m,
                      enabled |-> enabled] >>
    /\ sessions \in {<< >>, << OrphanSession >>}
    /\ todos \in {<< >>, << DoneTodo >>}
    /\ \E S \in {FreshStore, BonusedStore} :
          /\ dailyPoints = S.daily
          /\ weeklyBonus = S.weekly
          /\ streakData = S.streak
    /\ last = NoCall
    /\ history = NoHistory
    /\ calls = 0
    /\ procs = NoProcs
    /\ NoTimers

\* activityStore.stopTimer: the session of the stopped timer is saved with
\* the whole seconds it ran
StopTimer ==
    /\ Len(sessions) < MaxCalcSessions
    /\ \E a \in 1 .. Len(activities), durationSeconds \in CalcElapsedValues :
          sessions' = Append(sessions,
              [activityId |-> activities[a].id,
               durationSeconds |-> durationSeconds,
               date |-> formatDate(now)])
    /\ last' = Call("stopTimer", {}, FALSE)
    /\ UNCHANGED << timerVars, procs, now, zone, dailyPoints, weeklyBonus, streakData,
                    activities, goals, todos, history, calls >>

\* pointsService.calculateDailyPoints(date) with the storage working
CalculateDailyPointsCalc ==
    /\ \E date \in Dates :
          \E r \in { calculateDailyPoints(Store, date, {}) } :
             /\ SetStore(r.store)
             /\ last' = Call("calculateDailyPoints", {}, r.err)
    /\ UNCHANGED << timerVars, procs, now, zone, activities, goals, sessions, todos, history,
                    calls >>

\* pointsService.applyBonusToDay(date, 50) with the storage working
ApplyBonusToDayCalc ==
    /\ calls < MaxCalcApplies
    /\ \E date \in Dates :
          \E r \in { applyBonusToDay(Store, date, 50, {}) } :
             /\ SetStore(r.store)
             /\ last' = Call("applyBonusToDay", {}, r.err)
    /\ calls' = calls + 1
    /\ UNCHANGED << timerVars, procs, now, zone, activities, goals, sessions, todos, history >>

NextCalc == StopTimer \/ CalculateDailyPointsCalc \/ ApplyBonusToDayCalc

SpecCalc == InitCalc /\ [][NextCalc]_vars

----------------------------------------------------------------------------
(* Claims on the Daily Points Calculator (SpecCalc) *)

\* the sessions of an activity on a date, and their total
SessionsOf(id, date) ==
    SelectSeq(sessions, LAMBDA x : x.activityId = id /\ x.date = date)
TotalSeconds(id, date) == SumDuration(SessionsOf(id, date))

\* the breakdown rows of an activity in a DailyPoints value
RowsOf(dp, id) ==
    SelectSeq(dp.breakdown, LAMBDA x : x.source = "activity" /\ x.sourceId = id)

\* what calculateDailyPoints(date) returns in the current state
Calculated(date) == calculateDailyPoints(Store, date, {}).value[1]

\* C12: for every activity that is not negative and has an enabled goal and
\* tracked time on the date, calculateDailyPoints gives one breakdown row
\* whose points are exactly the activity's goalPoints when totalSeconds >=
\* minimumMinutes * 60 and exactly 0 otherwise, for every goalPoints value,
\* 0 included
C12_AllOrNothing ==
    \A date \in Dates, a \in 1 .. Len(activities), g \in 1 .. Len(goals) :
       LET activity == activities[a]
           goal == goals[g]
           totalSeconds == TotalSeconds(activity.id, date)
           rows == RowsOf(Calculated(date), activity.id)
       IN  (/\ ~activity.isNegative
            /\ goal.activityId = activity.id
            /\ goal.enabled
            /\ totalSeconds > 0)
           => /\ Len(rows) = 1
              /\ rows[1].points =
                    IF totalSeconds >= goal.minimumMinutes * 60
                    THEN 2 * activity.goalPoints ELSE 0


\* C13: for every negative activity with tracked time on the date,
\* calculateDailyPoints gives one breakdown row whose points are minus the
\* whole minutes tracked times the activity's rate per minute (the default
\* rate where none is set), so less than 60 tracked seconds cost nothing; the
\* row has goalMet = false and no goalTime
C13_NegativeFlooring ==
    \A date \in Dates, a \in 1 .. Len(activities) :
       LET activity == activities[a]
           totalSeconds == TotalSeconds(activity.id, date)
           rows == RowsOf(Calculated(date), activity.id)
           wholeMinutes == CHOOSE m \in 0 .. totalSeconds :
                              60 * m <= totalSeconds /\ totalSeconds < 60 * (m + 1)
       IN  (activity.isNegative /\ totalSeconds > 0)
           => /\ Len(rows) = 1
              /\ rows[1].points = 0 - (wholeMinutes * RateOf(activity))
              /\ totalSeconds < 60 => rows[1].points = 0
              /\ rows[1].goalMet = FALSE
              /\ rows[1].goalTime = << >>

\* 125 seconds of a negative activity were tracked on a day at
\* the rate of 0.5 and the stored row says -1.0
C13_Witness ==
    /\ RateOf(activities[2]) = 1
    /\ \E date \in DOMAIN dailyPoints :
          /\ TotalSeconds("social", date) = 125
          /\ RowsOf(dailyPoints[date], "social") # << >>
          /\ RowsOf(dailyPoints[date], "social")[1].points = -2


\* the exact sum of the breakdown rows of a DailyPoints value, in half points
BreakdownSum(dp) == SumPoints(dp.breakdown)

\* C14 as stated: earnedPoints is the signed sum of the breakdown rows
\* rounded to the nearest integer, a tie going away from zero (-1.5 gives -2
\* and -0.5 gives -1)
C14_TiesAwayFromZero ==
    \A date \in Dates :
       LET dp == Calculated(date)
           h == BreakdownSum(dp)
           e == dp.earnedPoints
           absH == IF h < 0 THEN 0 - h ELSE h
           absE == IF e < 0 THEN 0 - e ELSE e
       IN  /\ 2 * absE - 1 <= absH
           /\ absH < 2 * absE + 1
           /\ h < 0 => e <= 0
           /\ h > 0 => e >= 0

\* C14, amended: earnedPoints is the signed sum of the breakdown rows rounded
\* to the nearest integer, a tie going up, toward plus infinity (-1.5 gives
\* -1, -0.5 gives 0, 1.5 gives 2)
C14_TiesUp ==
    \A date \in Dates :
       LET dp == Calculated(date)
           h == BreakdownSum(dp)
           e == dp.earnedPoints
       IN  /\ 2 * e - 1 <= h
           /\ h < 2 * e + 1

\* a day whose rows sum to -1.5 is stored with earnedPoints -1
C14_Witness ==
    \E date \in DOMAIN dailyPoints :
       /\ BreakdownSum(dailyPoints[date]) = -3
       /\ dailyPoints[date].earnedPoints = -1


\* C15: every DailyPoints record in storage, written by calculateDailyPoints
\* or by applyBonusToDay, has totalPoints = earnedPoints + bonusApplied and
\* reachedGoal = (totalPoints >= 100)
C15_TotalIsSum ==
    \A date \in DOMAIN dailyPoints :
       LET dp == dailyPoints[date]
       IN  /\ dp.totalPoints = dp.earnedPoints + dp.bonusApplied
           /\ dp.reachedGoal = (dp.totalPoints >= 100)

\* the calculator wrote a day whose rows sum to -0.5 next to 50 applied bonus
\* points, and applyBonusToDay wrote a day with bonus on top of it
C15_Witness ==
    /\ last.op = "applyBonusToDay" /\ ~last.err
    /\ \E date \in DOMAIN dailyPoints :
          /\ BreakdownSum(dailyPoints[date]) = -1
          /\ dailyPoints[date].bonusApplied = 100
          /\ dailyPoints[date].totalPoints = 100


----------------------------------------------------------------------------
(* SpecInputs: the handlers that change a day's inputs *)

\* the todo of the user: worth 5 points, not completed
UserTodos ==
    << [id |-> "t1", completed |-> FALSE, completedAt |-> << >>, points |-> 5] >>

\* the minutes typed into a new row of the edit dialog
EditMinutes == {1}

InitInputs ==
    /\ now = 3
    /\ zone = ZoneUTC
    /\ dailyPoints = EmptyMap
    /\ weeklyBonus = EmptyMap
    /\ streakData = << >>
    /\ activities = UserActivities
    /\ goals = UserGoals
    /\ sessions = << >>
    /\ todos = UserTodos
    /\ last = NoCall
    /\ history = NoHistory
    /\ calls = 0
    /\ procs = NoProcs
    /\ NoTimers

\* useStats.loadData (refreshData), as far as it touches the engine's records
loadData(S) == getStreakData(getCurrentWeeklyBonus(S, {}).store, {}).store

\* todoStore.toggleTodoComplete: completed is flipped and completedAt is the
\* time of the call, or is removed
ToggleTodoComplete ==
    /\ \E i \in 1 .. Len(todos) :
          todos' = [todos EXCEPT
                      ![i].completed = ~todos[i].completed,
                      ![i].completedAt = IF ~todos[i].completed
                                         THEN << now >> ELSE << >>]
    /\ last' = Call("toggleTodoComplete", {}, FALSE)
    /\ UNCHANGED << timerVars, procs, now, zone, dailyPoints, weeklyBonus, streakData,
                    activities, goals, sessions, history, calls >>

\* EditDayDialog.handleSave with one new row, then onSave: the session is
\* added to the edited date and the stats screen reloads its data
HandleSave ==
    /\ Len(sessions) < MaxSessions
    /\ \E date \in Dates, a \in 1 .. Len(activities), minutes \in EditMinutes :
          sessions' = Append(sessions,
              [activityId |-> activities[a].id,
               durationSeconds |-> minutes * 60,
               date |-> date])
    /\ SetStore(loadData(Store))
    /\ last' = Call("handleSave", {}, FALSE)
    /\ UNCHANGED << timerVars, procs, now, zone, activities, goals, todos, history, calls >>

\* usePoints.recalculateDay: recalculateDayPoints(date), then loadData; the
\* hook is the only caller of recalculateDayPoints and no screen or store
\* calls it on its own
RecalculateDay ==
    /\ calls < MaxOps
    /\ \E date \in Dates :
          \E r \in { recalculateDayPoints(Store, date, {}) } :
             /\ SetStore(loadData(r.store))
             /\ last' = Call("recalculateDay", {}, r.err)
    /\ calls' = calls + 1
    /\ UNCHANGED << timerVars, procs, now, zone, activities, goals, sessions, todos, history >>

NextInputs ==
    \/ Tick
    \/ AddTrackingSession
    \/ ToggleTodoComplete
    \/ HandleSave
    \/ RecalculateDay

\* The clock never stops; nothing else is scheduled by the code: a handler
\* runs when the user acts
SpecInputs == InitInputs /\ [][NextInputs]_vars /\ WF_vars(Tick)

\* the stored DailyPoints of the date is not the value computed from the
\* current sessions, todos and goals
Stale(date) ==
    getDailyPoints(Store, date, FALSE) # << Calculated(date) >>

\* the date has inputs: a session or a completed todo
HasInputs(date) ==
    \/ \E i \in 1 .. Len(sessions) : sessions[i].date = date
    \/ \E i \in 1 .. Len(todos) :
          /\ todos[i].completed
          /\ todos[i].completedAt # << >>
          /\ formatDate(todos[i].completedAt[1]) = date

\* C16: after a handler has changed the inputs of a date (stopTimer saving a
\* session, toggleTodoComplete, the edit dialog saving sessions), the date is
\* eventually recalculated: its stored DailyPoints eventually equals the value
\* computed from the current sessions, todos and goals
C16_RecalculationFollows ==
    \A date \in Dates : (HasInputs(date) /\ Stale(date)) ~> ~Stale(date)


----------------------------------------------------------------------------
(* SpecSteps: orchestrator calls step by step, one step per awaited call *)

\* at most this many orchestrator calls are made, and overlap, in a run
MaxProcs == 2
Procs == 1 .. MaxProcs

\* the amounts applyBonusToDay is called with
StepAmounts == {50, 150}

\* a call that has not started
Idle ==
    [op |-> "none", pc |-> "idle", date |-> 0, amount |-> 0,
     dp |-> << >>, wb |-> << >>, sd |-> << >>, log |-> << >>]

\* the positions at which a call is over: before it, returned, thrown
Over == {"idle", "done", "failed"}

\* an entry of the log of a call: the storage operation it awaited, and the
\* number it wrote or decided on
Entry(rec, kind, value) == [rec |-> rec, kind |-> kind, value |-> value]

\* 190 bonus points are banked and 120 s of the goal activity were tracked
\* today; on some installs 50 of the points were applied to today already
InitSteps ==
    /\ now = 3
    /\ zone = ZoneUTC
    /\ activities = UserActivities
    /\ goals = UserGoals
    /\ sessions = << [activityId |-> "read", durationSeconds |-> 120,
                      date |-> formatDate(now)] >>
    /\ todos = << >>
    /\ \E S \in {UsedStore, BonusedStore} :
          /\ dailyPoints = S.daily
          /\ weeklyBonus = S.weekly
          /\ streakData = S.streak
    /\ last = NoCall
    /\ history = NoHistory
    /\ calls = 0
    /\ procs = [p \in Procs |-> Idle]
    /\ NoTimers

\* the variables no step of a call changes
Inputs == << now, zone, activities, goals, sessions, todos, last, history, calls,
            timerVars >>

\* the local variable dailyPoints of recalculateDayPoints and applyBonusToDay
InHand_reread(proc) == dailyPoints[proc.date]

InHand(proc) == proc.dp[1]

\* usePoints.recalculateDay calls recalculateDayPoints(date)
StartRecalculate(p) ==
    /\ procs[p].pc = "idle"
    /\ \E date \in Dates :
          procs' = [procs EXCEPT ![p] =
                      [Idle EXCEPT !.op = "recalculateDayPoints",
                                   !.pc = "calculate", !.date = date]]
    /\ UNCHANGED << Inputs, dailyPoints, weeklyBonus, streakData >>

\* usePoints.applyBonus calls applyBonusToDay(date, amount)
StartApply(p) ==
    /\ procs[p].pc = "idle"
    /\ \E date \in Dates, bonusAmount \in StepAmounts :
          procs' = [procs EXCEPT ![p] =
                      [Idle EXCEPT !.op = "applyBonusToDay",
                                   !.pc = IF bonusAmount <= 0 THEN "failed"
                                          ELSE "getWeekly",
                                   !.date = date, !.amount = bonusAmount]]
    /\ UNCHANGED << Inputs, dailyPoints, weeklyBonus, streakData >>

\* await calculateDailyPoints(date)
CalculateStep(p) ==
    /\ procs[p].pc = "calculate"
    /\ \E r \in { calculateDailyPoints(Store, procs[p].date, {}) } :
          /\ SetStore(r.store)
          /\ procs' = [procs EXCEPT
                ![p].dp = r.value,
                ![p].log = @ \o << Entry("daily", "read", 0),
                                   Entry("daily", "write", r.value[1].totalPoints) >>,
                ![p].pc = IF procs[p].op = "applyBonusToDay" THEN "applySave"
                          ELSE IF calculateBonusEarned(r.value[1]) > 0
                          THEN "addBonusRead" ELSE "streakRead"]
    /\ UNCHANGED Inputs

\* addBonusToWeek: await storage.getCurrentWeeklyBonus()
AddBonusRead(p) ==
    /\ procs[p].pc = "addBonusRead"
    /\ \E g \in { getCurrentWeeklyBonus(Store, {}) } :
          /\ SetStore(g.store)
          /\ procs' = [procs EXCEPT
                ![p].wb = << g.value >>,
                ![p].log = Append(@, Entry("weekly", "read", 0)),
                ![p].pc = "addBonusSave"]
    /\ UNCHANGED Inputs

\* addBonusToWeek: await storage.saveWeeklyBonus(weeklyBonus)
AddBonusSave(p) ==
    /\ procs[p].pc = "addBonusSave"
    /\ LET bonusEarned == calculateBonusEarned(InHand(procs[p]))
           wb == [procs[p].wb[1] EXCEPT
                    !.availableBonus = Capped(@, bonusEarned),
                    !.dailyBreakdown = Upsert(@, procs[p].date, bonusEarned, 0)]
       IN  /\ SetStore(saveWeeklyBonus(Store, wb))
           /\ procs' = [procs EXCEPT
                 ![p].wb = << wb >>,
                 ![p].log = Append(@, Entry("weekly", "write", bonusEarned)),
                 ![p].pc = "streakRead"]
    /\ UNCHANGED Inputs

\* updateStreak: await storage.getStreakData()
StreakRead(p) ==
    /\ procs[p].pc = "streakRead"
    /\ \E g \in { getStreakData(Store, {}) } :
          /\ SetStore(g.store)
          /\ procs' = [procs EXCEPT
                ![p].sd = << g.value >>,
                ![p].log = Append(@, Entry("streak", "read", 0)),
                ![p].pc = "streakSave"]
    /\ UNCHANGED Inputs

\* updateStreak: await storage.saveStreakData(streakData)
StreakSave(p) ==
    /\ procs[p].pc = "streakSave"
    /\ LET totalPoints == InHand(procs[p]).totalPoints
           sd == streakTransition(procs[p].sd[1], procs[p].date, totalPoints)
       IN  /\ streakData' = << sd >>
           /\ procs' = [procs EXCEPT
                 ![p].sd = << sd >>,
                 ![p].log = Append(@, Entry("streak", "write", totalPoints)),
                 ![p].pc = "done"]
    /\ UNCHANGED << Inputs, dailyPoints, weeklyBonus >>

\* applyBonusToDay: await storage.getCurrentWeeklyBonus(), then the test of
\* the pool
ApplyGetWeekly(p) ==
    /\ procs[p].pc = "getWeekly"
    /\ \E g \in { getCurrentWeeklyBonus(Store, {}) } :
          /\ SetStore(g.store)
          /\ procs' = [procs EXCEPT
                ![p].wb = << g.value >>,
                ![p].log = Append(@, Entry("weekly", "read", 0)),
                ![p].pc = IF NotEnoughBonus(g.value, procs[p].amount)
                          THEN "failed" ELSE "getDaily"]
    /\ UNCHANGED Inputs

\* applyBonusToDay: await storage.getDailyPoints(date)
ApplyGetDaily(p) ==
    /\ procs[p].pc = "getDaily"
    /\ LET existing == getDailyPoints(Store, procs[p].date, FALSE)
       IN  procs' = [procs EXCEPT
              ![p].dp = existing,
              ![p].log = Append(@, Entry("daily", "read", 0)),
              ![p].pc = IF existing = << >> THEN "calculate" ELSE "applySave"]
    /\ UNCHANGED << Inputs, dailyPoints, weeklyBonus, streakData >>

\* applyBonusToDay: the bonus is put on the two records in hand, then
\* await Promise.all([saveDailyPoints, saveWeeklyBonus])
ApplySave(p) ==
    /\ procs[p].pc = "applySave"
    /\ LET bonusAmount == procs[p].amount
           dp == WithBonus(InHand(procs[p]), bonusAmount)
           wb == [procs[p].wb[1] EXCEPT
                    !.availableBonus = @ - bonusAmount,
                    !.usedBonus = @ + bonusAmount,
                    !.dailyBreakdown = Upsert(@, procs[p].date, 0, bonusAmount)]
       IN  /\ dailyPoints' = Put(dailyPoints, procs[p].date, dp)
           /\ weeklyBonus' = saveWeeklyBonus(Store, wb).weekly
           /\ procs' = [procs EXCEPT
                 ![p].dp = << dp >>,
                 ![p].wb = << wb >>,
                 ![p].log = @ \o << Entry("daily", "write", dp.totalPoints),
                                    Entry("weekly", "write", bonusAmount) >>,
                 ![p].pc = "streakRead"]
    /\ UNCHANGED << Inputs, streakData >>

NextSteps ==
    \E p \in Procs :
       \/ StartRecalculate(p)
       \/ StartApply(p)
       \/ CalculateStep(p)
       \/ AddBonusRead(p)
       \/ AddBonusSave(p)
       \/ StreakRead(p)
       \/ StreakSave(p)
       \/ ApplyGetWeekly(p)
       \/ ApplyGetDaily(p)
       \/ ApplySave(p)

SpecSteps == InitSteps /\ [][NextSteps]_vars


----------------------------------------------------------------------------
(* Claims on the calls step by step (SpecSteps) *)

\* the stage a record belongs to: DailyPoints, WeeklyBonus, StreakData
Stage(rec) == IF rec = "daily" THEN 1 ELSE IF rec = "weekly" THEN 2 ELSE 3

\* the entries of a log that are writes of the record
Writes(log, rec) == SelectSeq(log, LAMBDA e : e.rec = rec /\ e.kind = "write")

\* C17: in every recalculateDayPoints call the storage operations come in
\* stage order (every DailyPoints operation before every WeeklyBonus one, and
\* these before every StreakData one); once the call is past the ledger
\* stage, WeeklyBonus was written iff the total the calculator wrote in this
\* call exceeds 100, and then with that total minus 100 as the surplus; and
\* the total the streak is decided on is the total the calculator wrote in
\* this call, whatever another call stored for the date meanwhile
C17_StageOrder ==
    \A p \in Procs :
       procs[p].op = "recalculateDayPoints" =>
          LET log == procs[p].log
              daily == Writes(log, "daily")
              weekly == Writes(log, "weekly")
              streak == Writes(log, "streak")
          IN  /\ \A i, j \in 1 .. Len(log) :
                    Stage(log[i].rec) < Stage(log[j].rec) => i < j
              /\ procs[p].pc \in {"streakRead", "streakSave", "done"} =>
                    /\ Len(daily) = 1
                    /\ (weekly # << >>) <=> (daily[1].value > 100)
                    /\ weekly # << >> =>
                          /\ Len(weekly) = 1
                          /\ weekly[1].value = daily[1].value - 100
              /\ procs[p].pc = "done" =>
                    /\ Len(streak) = 1
                    /\ streak[1].value = daily[1].value

\* a recalculateDayPoints call has returned after writing a surplus to the
\* week, and the record stored for its date is no longer the one it wrote
C17_Witness ==
    \E p \in Procs :
       /\ procs[p].op = "recalculateDayPoints"
       /\ procs[p].pc = "done"
       /\ Writes(procs[p].log, "weekly") # << >>
       /\ dailyPoints[procs[p].date].totalPoints
             # Writes(procs[p].log, "daily")[1].value


RECURSIVE SumApplied(_, _)
\* the sum of bonusApplied over the DailyPoints records of the dates
SumApplied(daily, dates) ==
    IF dates = {} THEN 0
    ELSE LET d == CHOOSE x \in dates : TRUE
         IN  daily[d].bonusApplied + SumApplied(daily, dates \ {d})

RECURSIVE SumUsed(_, _)
\* the sum of usedBonus over the WeeklyBonus records of the weeks
SumUsed(weekly, weeks) ==
    IF weeks = {} THEN 0
    ELSE LET k == CHOOSE x \in weeks : TRUE
         IN  weekly[k].usedBonus + SumUsed(weekly, weeks \ {k})

\* the bonus on the days, and the bonus taken from the pools
AppliedOnDays(S) == SumApplied(S.daily, DOMAIN S.daily)
UsedOfPools(S) == SumUsed(S.weekly, DOMAIN S.weekly)

\* C20: when two orchestrator calls on different dates have overlapped and
\* both are over, the bonus on the days is the bonus taken from the pool
\* (what the calls put on days is what they removed from availableBonus)
C20_NoOverdraw ==
    (/\ \A p \in Procs : procs[p].op # "none" /\ procs[p].pc \in Over
     /\ procs[1].date # procs[2].date)
    => AppliedOnDays(Store) = UsedOfPools(Store)


----------------------------------------------------------------------------
(* Claims on storage failures (Spec) *)

\* the storage operations every recalculateDayPoints call performs, and those
\* every applyBonusToDay call performs that gets past the test of the pool
RecalculateOperations == {"readDaily", "writeDaily", "readStreak", "writeStreak"}
ApplyOperations ==
    {"readWeekly", "readDailyApply", "saveDailyApply", "saveWeeklyApply",
     "readStreak", "writeStreak"}

\* C18: when a storage read or write performed during recalculateDayPoints
\* or applyBonusToDay fails, the call rejects (it never goes on with a
\* default record in place of the one it could not read)
C18_FailuresReject ==
    \A date \in Dates :
       /\ \A op \in RecalculateOperations :
             recalculateDayPoints(Store, date, {op}).err
       /\ ~applyBonusToDay(Store, date, 50, {}).err =>
             \A op \in ApplyOperations :
                applyBonusToDay(Store, date, 50, {op}).err

----------------------------------------------------------------------------
(* SpecTodos: todos completed and un-completed, and days recalculated *)

\* two todos, one worth 5 points and one worth none, not completed
TwoTodos ==
    << [id |-> "t1", completed |-> FALSE, completedAt |-> << >>, points |-> 5],
       [id |-> "t2", completed |-> FALSE, completedAt |-> << >>, points |-> 0] >>

InitTodos ==
    /\ now = 3
    /\ zone = ZoneUTC
    /\ dailyPoints = EmptyMap
    /\ weeklyBonus = EmptyMap
    /\ streakData = << >>
    /\ activities = UserActivities
    /\ goals = UserGoals
    /\ sessions = << >>
    /\ todos = TwoTodos
    /\ last = NoCall
    /\ history = NoHistory
    /\ calls = 0
    /\ procs = NoProcs
    /\ NoTimers

NextTodos == Tick \/ ToggleTodoComplete \/ RecalculateDay

SpecTodos == InitTodos /\ [][NextTodos]_vars

----------------------------------------------------------------------------
(* Claims on the todos (SpecTodos) *)

\* the breakdown rows of a todo in a DailyPoints value
TodoRowsOf(dp, id) ==
    SelectSeq(dp.breakdown, LAMBDA x : x.source = "todo" /\ x.sourceId = id)

\* the calendar day a completed todo counts for: the date part of completedAt
CompletedOn(todo) ==
    IF todo.completed /\ todo.completedAt # << >>
    THEN { todo.completedAt[1] \div 24 } ELSE {}

\* in dp, a DailyPoints of the date, each todo has one row with its points
\* when it is completed on the date with points > 0, and no row otherwise
TodoRowsRight(dp, date) ==
    \A i \in 1 .. Len(todos) :
       LET rows == TodoRowsOf(dp, todos[i].id)
       IN  IF date \in CompletedOn(todos[i]) /\ todos[i].points > 0
           THEN Len(rows) = 1 /\ rows[1].points = 2 * todos[i].points
           ELSE rows = << >>

\* C21: what calculateDailyPoints computes for a date holds exactly one row
\* per todo that is completed, has the date as the day of its completedAt
\* and has points > 0, with its points, and no row of any other todo (none
\* on another date, none after the todo is un-completed); and the record a
\* recalculation stores for a date is such a value
C21_TodoRows ==
    [][ \A date \in Dates :
           /\ TodoRowsRight(Calculated(date), date)'
           /\ (/\ last'.op = "recalculateDay"
               /\ date \in DOMAIN dailyPoints'
               /\ (date \in DOMAIN dailyPoints
                      => dailyPoints'[date] # dailyPoints[date]))
              => TodoRowsRight(dailyPoints[date], date)' ]_vars

\* a todo was completed on day 1 and both days were recalculated: the record
\* of day 1 has its row, the record of day 0 has none
C21_Witness ==
    /\ last.op = "recalculateDay"
    /\ CompletedOn(todos[1]) = {1}
    /\ 0 \in DOMAIN dailyPoints /\ 1 \in DOMAIN dailyPoints
    /\ Len(TodoRowsOf(dailyPoints[1], "t1")) = 1
    /\ TodoRowsOf(dailyPoints[0], "t1") = << >>
    /\ todos[2].completed


----------------------------------------------------------------------------
(* Claims on the breakdown as a whole (SpecCalc) *)

\* the activities that get a row on the date: tracked, and negative or with
\* an enabled goal
Scoring(date) ==
    { a \in 1 .. Len(activities) :
         /\ TotalSeconds(activities[a].id, date) > 0
         /\ \/ activities[a].isNegative
            \/ \E g \in 1 .. Len(goals) :
                  goals[g].activityId = activities[a].id /\ goals[g].enabled }

\* the todos that get a row on the date
Counting(date) ==
    { i \in 1 .. Len(todos) :
         date \in CompletedOn(todos[i]) /\ todos[i].points > 0 }

\* C22: the breakdown calculateDailyPoints computes for a date has exactly
\* one row per activity that has tracked time and is negative or has an
\* enabled goal, one row per qualifying completed todo, and nothing else (no
\* row for an activity without enabled goal, without tracked time, or for
\* sessions of an activity that no longer exists); earnedPoints is the
\* rounded signed sum of the rows
C22_BreakdownComplete ==
    \A date \in Dates :
       LET dp == Calculated(date)
       IN  /\ \A a \in 1 .. Len(activities) :
                 Len(RowsOf(dp, activities[a].id))
                    = IF a \in Scoring(date) THEN 1 ELSE 0
           /\ \A i \in 1 .. Len(todos) :
                 Len(TodoRowsOf(dp, todos[i].id))
                    = IF i \in Counting(date) THEN 1 ELSE 0
           /\ Len(dp.breakdown)
                 = Cardinality(Scoring(date)) + Cardinality(Counting(date))
           /\ 2 * dp.earnedPoints - 1 <= BreakdownSum(dp)
           /\ BreakdownSum(dp) < 2 * dp.earnedPoints + 1

\* a day with two scoring activities and a completed todo is stored with
\* exactly three rows
C22_Witness ==
    /\ Cardinality(Scoring(0)) = 2
    /\ Cardinality(Counting(0)) = 1
    /\ 0 \in DOMAIN dailyPoints
    /\ Len(dailyPoints[0].breakdown) = 3

----------------------------------------------------------------------------
(* Claims on the streak record as a whole (SpecStreak) *)

\* longestStreak >= currentStreak >= 0 in a stored record
StreakOrdered(sd) == sd.longestStreak >= sd.currentStreak /\ sd.currentStreak >= 0

\* C23: in every reachable state the stored StreakData has
\* longestStreak >= currentStreak >= 0, and no step of the program (an
\* updateStreak call for any date, goal reached or not) lowers the stored
\* longestStreak.
C23_LongestMonotone ==
    [][ /\ streakData' # << >> => StreakOrdered(streakData[1])'
        /\ (streakData # << >> /\ streakData' # << >>)
              => streakData'[1].longestStreak >= streakData[1].longestStreak ]_vars

----------------------------------------------------------------------------
(* Timers: the activityStore calls and the storage of active sessions *)

\* at most this many timers run at once
MAX_CONCURRENT_SESSIONS == 3

\* at most this many activityStore calls are in progress at once
MaxTimerCalls == 2
\* at most this many activityStore calls are made in a behaviour
MaxTimerOps == 4
\* the clock of the timers advances at most this many times
MaxTicks == 1

\* the calls in progress: 0 is the interval callback of useActivityTimers,
\* the others are calls of the store's functions
TimerProcs == 0 .. MaxTimerCalls
UserCalls == 1 .. MaxTimerCalls

\* no call in progress.  A call holds the storage operations it still has to
\* make (todo), the list its last storage read returned, and where it is: at
\* the read or the write of the first operation of todo, or at the final
\* getActiveSessions and set of the store's state
NoTimerCall ==
    [kind |-> "none", activityId |-> "", seq |-> 0, pc |-> "done",
     todo |-> << >>, list |-> << >>]

\* what is known of the timer of an activity beside the program's state: on
\* from the startTimer call to the stopTimer or cancelTimer call, paused from
\* the pauseTimer call to the resumeTimer call, running the seconds that
\* passed while on and not paused, resumed once it was paused and resumed,
\* lastStart the number of the last startTimer call, stopped once a
\* stopTimer or cancelTimer call completed with no startTimer call made after it was called, alone
\* while no call or refresh began before another had completed
NoTimer ==
    [on |-> FALSE, paused |-> FALSE, resumed |-> FALSE, running |-> 0,
     lastStart |-> 0, stopped |-> FALSE, alone |-> TRUE]

\* a call or a refresh is in progress
Busy == \E p \in DOMAIN timerCalls : timerCalls[p].kind # "none"

\* what is known of the timers once a call begins
Overlapping(h) ==
    IF Busy THEN [a \in DOMAIN h |-> [h[a] EXCEPT !.alone = FALSE]] ELSE h

ActivityIds == { activities[i].id : i \in 1 .. Len(activities) }

\* sessions.some / sessions.find by activityId
HasSession(list, activityId) ==
    \E i \in 1 .. Len(list) : list[i].activityId = activityId

\* sessions.findIndex((s) => s.activityId === activityId), 0 for -1
FindIndex(list, activityId) ==
    IF HasSession(list, activityId)
    THEN CHOOSE i \in 1 .. Len(list) :
            /\ list[i].activityId = activityId
            /\ \A j \in 1 .. i - 1 : list[j].activityId # activityId
    ELSE 0

\* { ...sessions[index], ...updates } for the updates the program makes
Merge(session, upd) ==
    IF upd.field = "pause"
    THEN [session EXCEPT !.isPaused = TRUE, !.pausedAt = << upd.value >>]
    ELSE IF upd.field = "resume"
    THEN [session EXCEPT !.isPaused = FALSE, !.pausedAt = << >>]
    ELSE [session EXCEPT !.elapsedSeconds = upd.value]

\* what addActiveSession, updateActiveSession and removeActiveSession save,
\* given the list they read
Saved(op, list) ==
    IF op.op = "add" THEN Append(list, op.session)
    ELSE IF op.op = "remove"
    THEN SelectSeq(list, LAMBDA s : s.activityId # op.activityId)
    ELSE LET index == FindIndex(list, op.activityId)
         IN  [i \in 1 .. Len(list) |->
                 IF i = index THEN Merge(list[i], op.upd) ELSE list[i]]

\* a call that begins with the storage operations ops
Begin(kind, activityId, ops) ==
    [kind |-> kind, activityId |-> activityId, seq |-> calls + 1,
     pc |-> IF ops = << >> THEN "refresh" ELSE "read",
     todo |-> ops, list |-> << >>]

\* a call after the first operation of its todo is done
Proceed(call) ==
    [call EXCEPT !.todo = Tail(call.todo), !.list = << >>,
                 !.pc = IF Tail(call.todo) = << >> THEN "refresh" ELSE "read"]

TimerCallMade(op, err) ==
    /\ calls' = calls + 1
    /\ last' = Call(op, {}, err)

\* the variables the timers leave alone
Engine == << now, zone, dailyPoints, weeklyBonus, streakData,
             activities, goals, todos, procs >>

\* activityStore.startTimer(activityId), up to its first storage operation
StartTimerCall(p) ==
    /\ timerCalls[p].kind = "none"
    /\ calls < MaxTimerOps
    /\ \E activityId \in ActivityIds :
          /\ ~HasSession(activeSessions, activityId)
          /\ IF Len(activeSessions) >= MAX_CONCURRENT_SESSIONS
             THEN /\ TimerCallMade("startTimer", TRUE)
                  /\ UNCHANGED << timerCalls, history >>
             ELSE /\ TimerCallMade("startTimer", FALSE)
                  /\ timerCalls' = [timerCalls EXCEPT ![p] =
                        Begin("startTimer", activityId,
                              << [op |-> "add",
                                  session |-> [activityId |-> activityId,
                                               startTime |-> clock,
                                               elapsedSeconds |-> 0,
                                               isPaused |-> FALSE,
                                               pausedAt |-> << >>]] >>)]
                  /\ history' = Overlapping([history EXCEPT ![activityId] =
                        [on |-> TRUE, paused |-> FALSE, resumed |-> FALSE,
                         running |-> 0, lastStart |-> calls + 1,
                         stopped |-> FALSE, alone |-> TRUE]])
    /\ UNCHANGED << Engine, sessions, clock, storedSessions, activeSessions >>

\* activityStore.stopTimer(activityId), up to removeActiveSession: the
\* TrackingSession is built from the session of the store's state and saved
StopTimerCall(p) ==
    /\ timerCalls[p].kind = "none"
    /\ calls < MaxTimerOps
    /\ \E i \in 1 .. Len(activeSessions) :
          LET session == activeSessions[i]
          IN  /\ i = FindIndex(activeSessions, session.activityId)
              /\ sessions' = Append(sessions,
                    [activityId |-> session.activityId,
                     durationSeconds |-> IF session.elapsedSeconds > 60
                                         THEN session.elapsedSeconds ELSE 60,
                     date |-> formatDate(now)])
              /\ timerCalls' = [timerCalls EXCEPT ![p] =
                    Begin("stopTimer", session.activityId,
                          << [op |-> "remove", activityId |-> session.activityId] >>)]
              /\ history' = Overlapping([history EXCEPT ![session.activityId].on = FALSE])
    /\ TimerCallMade("stopTimer", FALSE)
    /\ UNCHANGED << Engine, clock, storedSessions, activeSessions >>

\* activityStore.pauseTimer(activityId), up to updateActiveSession
PauseTimerCall(p) ==
    /\ timerCalls[p].kind = "none"
    /\ calls < MaxTimerOps
    /\ \E i \in 1 .. Len(activeSessions) :
          LET session == activeSessions[i]
          IN  /\ i = FindIndex(activeSessions, session.activityId)
              /\ ~session.isPaused
              /\ timerCalls' = [timerCalls EXCEPT ![p] =
                    Begin("pauseTimer", session.activityId,
                          << [op |-> "update", activityId |-> session.activityId,
                              upd |-> [field |-> "pause", value |-> clock]] >>)]
              /\ history' = Overlapping([history EXCEPT ![session.activityId].paused = TRUE])
    /\ TimerCallMade("pauseTimer", FALSE)
    /\ UNCHANGED << Engine, sessions, clock, storedSessions, activeSessions >>

\* activityStore.resumeTimer(activityId), up to updateActiveSession
ResumeTimerCall(p) ==
    /\ timerCalls[p].kind = "none"
    /\ calls < MaxTimerOps
    /\ \E i \in 1 .. Len(activeSessions) :
          LET session == activeSessions[i]
          IN  /\ i = FindIndex(activeSessions, session.activityId)
              /\ session.isPaused
              /\ timerCalls' = [timerCalls EXCEPT ![p] =
                    Begin("resumeTimer", session.activityId,
                          << [op |-> "update", activityId |-> session.activityId,
                              upd |-> [field |-> "resume", value |-> 0]] >>)]
              /\ history' = Overlapping([history EXCEPT
                    ![session.activityId].resumed = @ \/ history[session.activityId].paused,
                    ![session.activityId].paused = FALSE])
    /\ TimerCallMade("resumeTimer", FALSE)
    /\ UNCHANGED << Engine, sessions, clock, storedSessions, activeSessions >>

\* activityStore.cancelTimer(activityId), up to removeActiveSession
CancelTimerCall(p) ==
    /\ timerCalls[p].kind = "none"
    /\ calls < MaxTimerOps
    /\ \E activityId \in ActivityIds :
          /\ timerCalls' = [timerCalls EXCEPT ![p] =
                Begin("cancelTimer", activityId,
                      << [op |-> "remove", activityId |-> activityId] >>)]
          /\ history' = Overlapping([history EXCEPT ![activityId].on = FALSE])
    /\ TimerCallMade("cancelTimer", FALSE)
    /\ UNCHANGED << Engine, sessions, clock, storedSessions, activeSessions >>

\* the getActiveSessions of addActiveSession, updateActiveSession and
\* removeActiveSession; updateActiveSession saves nothing when the list has
\* no session of the activity
ReadActiveSessions(p) ==
    /\ timerCalls[p].pc = "read"
    /\ LET call == timerCalls[p]
           op   == Head(call.todo)
       IN  timerCalls' = [timerCalls EXCEPT ![p] =
              IF op.op = "update" /\ ~HasSession(storedSessions, op.activityId)
              THEN Proceed(call)
              ELSE [call EXCEPT !.pc = "write", !.list = storedSessions]]
    /\ UNCHANGED << Engine, sessions, last, calls, history, clock,
                    storedSessions, activeSessions >>

\* the saveActiveSessions of addActiveSession, updateActiveSession and
\* removeActiveSession
SaveActiveSessions(p) ==
    /\ timerCalls[p].pc = "write"
    /\ storedSessions' = Saved(Head(timerCalls[p].todo), timerCalls[p].list)
    /\ timerCalls' = [timerCalls EXCEPT ![p] = Proceed(timerCalls[p])]
    /\ UNCHANGED << Engine, sessions, last, calls, history, clock, activeSessions >>

\* the end of every call: getActiveSessions and set({ activeSessions })
SetActiveSessions(p) ==
    /\ timerCalls[p].pc = "refresh"
    /\ activeSessions' = storedSessions
    /\ timerCalls' = [timerCalls EXCEPT ![p] = NoTimerCall]
    /\ LET call == timerCalls[p]
       IN  history' =
              IF /\ call.kind \in {"stopTimer", "cancelTimer"}
                 /\ history[call.activityId].lastStart < call.seq
              THEN [history EXCEPT ![call.activityId].stopped = TRUE]
              ELSE history
    /\ UNCHANGED << Engine, sessions, last, calls, clock, storedSessions >>

\* the interval callback of useActivityTimers, updateAllElapsed, up to its
\* first updateActiveSession: one update per session of the store's state
\* that is not paused, with the seconds from its startTime to now
UpdateAllElapsed ==
    /\ timerCalls[0].kind = "none"
    /\ activeSessions # << >>
    /\ LET running == SelectSeq(activeSessions, LAMBDA s : ~s.isPaused)
           ops == [i \in 1 .. Len(running) |->
                      [op |-> "update", activityId |-> running[i].activityId,
                       upd |-> [field |-> "elapsed",
                                value |-> clock - running[i].startTime]]]
       IN  timerCalls' = [timerCalls EXCEPT ![0] =
              Begin("updateAllElapsed", "", ops)]
    /\ history' = Overlapping(history)
    /\ UNCHANGED << Engine, sessions, last, calls, clock,
                    storedSessions, activeSessions >>

\* two minutes pass
TimerTick ==
    /\ clock < 120 * MaxTicks
    /\ clock' = clock + 120
    /\ history' = [a \in DOMAIN history |->
          IF history[a].on /\ ~history[a].paused
          THEN [history[a] EXCEPT !.running = @ + 120]
          ELSE history[a]]
    /\ UNCHANGED << Engine, sessions, last, calls, storedSessions,
                    activeSessions, timerCalls >>

\* the store's functions called by the user
TimerCall(p) ==
    \/ StartTimerCall(p)
    \/ StopTimerCall(p)
    \/ PauseTimerCall(p)
    \/ ResumeTimerCall(p)
    \/ CancelTimerCall(p)

\* the storage steps of the calls in progress
TimerStep(p) ==
    \/ ReadActiveSessions(p)
    \/ SaveActiveSessions(p)
    \/ SetActiveSessions(p)

----------------------------------------------------------------------------
(* SpecTimers: the activityStore calls, overlapping *)

\* one activity more than the timers allowed at once
ManyActivities ==
    [i \in 1 .. MAX_CONCURRENT_SESSIONS + 1 |->
        [id |-> i, isNegative |-> FALSE, goalPoints |-> 0,
         negativePointsPerMinute |-> 0]]

InitTimers ==
    /\ now = 3
    /\ zone = ZoneUTC
    /\ dailyPoints = EmptyMap
    /\ weeklyBonus = EmptyMap
    /\ streakData = << >>
    /\ activities = ManyActivities
    /\ goals = << >>
    /\ sessions = << >>
    /\ todos = << >>
    /\ last = NoCall
    /\ history = [a \in ActivityIds |-> NoTimer]
    /\ calls = 0
    /\ procs = NoProcs
    /\ clock = 0
    /\ storedSessions = << >>
    /\ activeSessions = << >>
    /\ timerCalls = [p \in TimerProcs |-> NoTimerCall]

NextTimers == \E p \in UserCalls : TimerCall(p) \/ TimerStep(p)

SpecTimers == InitTimers /\ [][NextTimers]_vars

----------------------------------------------------------------------------
(* SpecElapsed: the store's functions called one after another, each after
   the one before has completed, with the clock and with the elapsed-time
   refresh, which overlaps them *)

InitElapsed ==
    /\ now = 3
    /\ zone = ZoneUTC
    /\ dailyPoints = EmptyMap
    /\ weeklyBonus = EmptyMap
    /\ streakData = << >>
    /\ activities = << UserActivities[1] >>
    /\ goals = UserGoals
    /\ sessions = << >>
    /\ todos = << >>
    /\ last = NoCall
    /\ history = [a \in ActivityIds |-> NoTimer]
    /\ calls = 0
    /\ procs = NoProcs
    /\ clock = 0
    /\ storedSessions = << >>
    /\ activeSessions = << >>
    /\ timerCalls = [p \in TimerProcs |-> NoTimerCall]

NextElapsed ==
    \/ TimerTick
    \/ UpdateAllElapsed
    \/ \E p \in {1} : TimerCall(p)
    \/ \E p \in TimerProcs : TimerStep(p)

SpecElapsed == InitElapsed /\ [][NextElapsed]_vars

----------------------------------------------------------------------------
(* Claims on the timers *)

\* C24: at most 3 timers run at once: in every state the active-session
\* list in storage and the one of the store's state hold at most
\* MAX_CONCURRENT_SESSIONS sessions, also when startTimer calls for different
\* activities overlap.
C24_AtMostThree ==
    /\ Len(storedSessions) <= MAX_CONCURRENT_SESSIONS
    /\ Len(activeSessions) <= MAX_CONCURRENT_SESSIONS

\* C25: paused time is not counted: for a timer that was started, paused,
\* resumed and then stopped, each call and each refresh made after the one
\* before had completed, the durationSeconds that stopTimer records is at
\* most the seconds the timer ran while not paused, or 60 when it ran less.
C25_PausedTimeExcluded ==
    [][ \A a \in DOMAIN history :
           (/\ last'.op = "stopTimer"
            /\ Len(sessions') = Len(sessions) + 1
            /\ sessions'[Len(sessions')].activityId = a
            /\ history[a].resumed
            /\ history'[a].alone)
           => sessions'[Len(sessions')].durationSeconds
                 <= (IF history[a].running > 60 THEN history[a].running ELSE 60)
      ]_vars

\* C30: once a stopTimer or cancelTimer call for an activity has completed,
\* storage holds no active session of the activity until startTimer is
\* called for it again, also when the elapsed-time refresh overlaps the
\* call.
C30_StoppedStaysStopped ==
    \A a \in DOMAIN history :
       history[a].stopped => ~HasSession(storedSessions, a)

----------------------------------------------------------------------------
(* Claims on repeated recalculation (Spec) *)

\* C26: recalculateDayPoints is idempotent: run twice in a row for a date,
\* with the sessions, todos, goals and clock unchanged and no storage
\* operation failing, the second run leaves the DailyPoints, the WeeklyBonus
\* records and the StreakData as the first run left them.
C26_Idempotent ==
    \A date \in Dates :
        LET first  == recalculateDayPoints(Store, date, {})
            second == recalculateDayPoints(first.store, date, {})
        IN  ~first.err => (~second.err /\ second.store = first.store)

----------------------------------------------------------------------------
(* Claims on a reached goal (SpecStreak, Spec) *)

\* C27: an updateStreak call with totalPoints >= 100 in which no storage
\* operation fails returns and stores a currentStreak of at least 1, also
\* on the day the StreakData record was created.
C27_GoalMeansStreak ==
    (/\ last.op = "updateStreak" /\ last.clean /\ ~last.err
     /\ isGoalReached(last.arg))
        => /\ last.ret[1] >= 1
           /\ streakData # << >>
           /\ streakData[1].currentStreak >= 1

\* C28: applied bonus is never banked again as surplus: what
\* recalculateDayPoints(date) adds to the availableBonus of the current
\* week is at most max(0, earnedPoints - 100) of the date, no storage
\* operation failing.
C28_SurplusOnly ==
    \A date \in Dates :
        LET r  == recalculateDayPoints(Store, date, {})
            dp == r.store.daily[date]
            after == IF WeekStart \in DOMAIN r.store.weekly
                     THEN r.store.weekly[WeekStart].availableBonus ELSE 0
        IN  ~r.err => after - AvailableBonus <=
                         (IF dp.earnedPoints > 100 THEN dp.earnedPoints - 100 ELSE 0)

----------------------------------------------------------------------------
(* Claims on the ledger as a whole (Spec) *)

RECURSIVE EarnedOf(_)
\* the sum of the earned fields of a dailyBreakdown
EarnedOf(dailyBreakdown) ==
    IF dailyBreakdown = << >> THEN 0
    ELSE Head(dailyBreakdown).earned + EarnedOf(Tail(dailyBreakdown))

RECURSIVE UsedOf(_)
\* the sum of the used fields of a dailyBreakdown
UsedOf(dailyBreakdown) ==
    IF dailyBreakdown = << >> THEN 0
    ELSE Head(dailyBreakdown).used + UsedOf(Tail(dailyBreakdown))

\* C29: every stored WeeklyBonus record has at most one dailyBreakdown entry
\* per date, usedBonus equal to the sum of the used fields, and
\* availableBonus at most the sum of the earned fields minus the sum of the
\* used fields.
C29_LedgerConsistent ==
    \A k \in DOMAIN weeklyBonus :
        LET wb == weeklyBonus[k]
        IN  /\ \A i, j \in 1 .. Len(wb.dailyBreakdown) :
                  wb.dailyBreakdown[i].date = wb.dailyBreakdown[j].date => i = j
            /\ wb.usedBonus = UsedOf(wb.dailyBreakdown)
            /\ wb.availableBonus <= EarnedOf(wb.dailyBreakdown) - UsedOf(wb.dailyBreakdown)

\* the current week's record after a surplus that the cap cut and an applied
\* bonus: entries for two dates, one with earned and used, and an
\* availableBonus below earned minus used
C29_Witness ==
    /\ WeekStart \in DOMAIN weeklyBonus
    /\ LET wb == weeklyBonus[WeekStart]
       IN  /\ Len(wb.dailyBreakdown) = 2
           /\ wb.usedBonus = 50
           /\ \E i \in 1 .. 2 : wb.dailyBreakdown[i].earned > 0 /\ wb.dailyBreakdown[i].used > 0
           /\ wb.availableBonus < EarnedOf(wb.dailyBreakdown) - UsedOf(wb.dailyBreakdown)

============================================================================
